---- MODULE Spec2Model ----
(***************************************************************************)
(* Model of web/app.py: a Flask facade over an Azure Blob Storage          *)
(* container.  Strings are sequences of lexemes (a lexeme is an atomic     *)
(* piece of text such as "http://", "127.0.0.1" or "/"), so that prefix,   *)
(* substring, split, strip, replace, lower and quote are computed on the   *)
(* text the way the Python code computes them.                             *)
(***************************************************************************)
EXTENDS Integers, Sequences, FiniteSets, TLC

VARIABLES
    env,              \* os.environ: process-wide configuration, fixed after start
    ctx,              \* result of the last blob_base_url / is_azurite evaluation
    containerExists,  \* storage backend: the container is present
    containerPublic,  \* storage backend: container access policy is public "blob"
    blobs,            \* storage backend: blob name -> stored blob record
    clock,            \* datetime.now(timezone.utc), in minutes
    req,              \* the request handled last
    last,             \* the response to it
    prev,             \* summary of the request/response handled before it
    pc,               \* ensure_container_exists callers: position in the function
    seen,             \* ensure_container_exists callers: local knowledge of the call
    createRejected,   \* history: the backend rejected a create although the container was absent
    live              \* history: names whose latest successful upload no successful delete followed

vars == <<env, ctx, containerExists, containerPublic, blobs, clock, req, last, prev,
          pc, seen, createRejected, live>>

(***************************************************************************)
(* Bounds of the model.                                                    *)
(***************************************************************************)
MaxParts == 2      \* parts (separated by ";") of an enumerated connection string
MaxBlobs == 1      \* blobs held by the container at once
MaxClock == 1      \* minutes the clock advances

(***************************************************************************)
(* Text helpers (Python str methods on lexeme sequences).                  *)
(***************************************************************************)
Unset == "<unset>"   \* os.getenv(...) returning None

Truthy(s) == s # Unset /\ s # ""

\* s.startswith(p)
StartsWith(s, p) == Len(s) >= Len(p) /\ SubSeq(s, 1, Len(p)) = p

\* s.endswith(p)
EndsWith(s, p) == Len(s) >= Len(p) /\ SubSeq(s, Len(s) - Len(p) + 1, Len(s)) = p

\* p in s
Contains(s, p) == \E i \in 1..(Len(s) - Len(p) + 1) : SubSeq(s, i, i + Len(p) - 1) = p

LowerLex(x) ==
    CASE x = "AZURITE" -> "azurite"
      [] x = "DevStoreAccount1" -> "devstoreaccount1"
      [] x = "BLOB.CORE.WINDOWS.NET" -> "blob.core.windows.net"
      [] OTHER -> x

\* s.lower()
Lower(s) == [i \in DOMAIN s |-> LowerLex(s[i])]

RECURSIVE RStripSlash(_)
\* s.rstrip('/')
RStripSlash(s) ==
    IF s # <<>> /\ s[Len(s)] = "/" THEN RStripSlash(SubSeq(s, 1, Len(s) - 1)) ELSE s

\* s.replace(old, new, 1) for a one-lexeme old
ReplaceFirst(s, old, new) ==
    IF \E i \in DOMAIN s : s[i] = old
    THEN LET i == CHOOSE j \in DOMAIN s : s[j] = old /\ \A k \in 1..(j - 1) : s[k] # old
         IN [j \in DOMAIN s |-> IF j = i THEN new ELSE s[j]]
    ELSE s

\* a or b, on strings
OrStr(a, b) == IF a # <<>> THEN a ELSE b

(***************************************************************************)
(* Connection strings.  A connection string is the sequence of its parts   *)
(* (the text between ";"); a part is key, "=" (or none) and value.         *)
(***************************************************************************)
Part(k, v) == [key |-> k, eq |-> TRUE, val |-> v]
Bare(k) == [key |-> k, eq |-> FALSE, val |-> <<>>]

\* the text of one part, as lexemes
PartText(p) == IF p.eq THEN <<p.key, "=">> \o p.val ELSE <<p.key>>

RECURSIVE ConnText(_)
\* the text of the whole connection string
ConnText(cs) ==
    IF cs = <<>> THEN <<>>
    ELSE IF Len(cs) = 1 THEN PartText(cs[1])
    ELSE PartText(cs[1]) \o <<";">> \o ConnText(Tail(cs))

\* dict(p.split("=", 1) for p in conn.split(";") if "=" in p): the last part of a key wins
_parse_conn_str(cs) ==
    LET keys == {cs[i].key : i \in {j \in DOMAIN cs : cs[j].eq}}
        lastOf(k) == CHOOSE i \in DOMAIN cs :
                        /\ cs[i].eq /\ cs[i].key = k
                        /\ \A j \in DOMAIN cs : (cs[j].eq /\ cs[j].key = k) => j <= i
    IN [k \in keys |-> cs[lastOf(k)].val]

\* parts.get(k), None read as ""
DictGet(d, k) == IF k \in DOMAIN d THEN d[k] ELSE <<>>

\* os.getenv("AZURE_STORAGE_CONNECTION_STRING", "")
ConnStr(e) == IF e.csSet THEN e.cs ELSE <<>>

is_azurite_prefix_only(e) ==
    StartsWith(ConnText(ConnStr(e)), <<"UseDevelopmentStorage", "=", "true">>)

is_azurite(e) ==
    LET cs == ConnStr(e)
        parts == _parse_conn_str(cs)
        acct == Lower(OrStr(DictGet(parts, "AccountName"), DictGet(parts, "accountname")))
        blob_ep == Lower(OrStr(DictGet(parts, "BlobEndpoint"), DictGet(parts, "blobendpoint")))
    IN IF StartsWith(ConnText(cs), <<"UseDevelopmentStorage", "=", "true">>)
       THEN TRUE
       ELSE \/ acct = <<"devstoreaccount1">>
            \/ Contains(blob_ep, <<"azurite">>)
            \/ Contains(blob_ep, <<"127.0.0.1", ":", "10000">>)

PlatformVars ==
    {"CONTAINER_APP_NAME", "CONTAINER_APP_ENV_DNS_SUFFIX", "WEBSITE_SITE_NAME",
     "WEBSITE_INSTANCE_ID", "APPSETTING_WEBSITE_SITE_NAME"}

is_azure_production_platform_only(e) == e.platform # {}

is_azure_production(e) ==
    \/ e.platform # {}
    \/ Contains(Lower(ConnText(ConnStr(e))), <<"blob.core.windows.net">>)

is_local_azurite(e) == is_azurite(e)

blob_base_url(e, account_name) ==
    LET public_base == e.publicBase
    IN IF e.publicBaseSet /\ public_base # <<>>
       THEN IF ~(StartsWith(public_base, <<"http://">>) \/ StartsWith(public_base, <<"https://">>))
            THEN <<"https://">> \o RStripSlash(public_base) \o <<"/", account_name>>
            ELSE IF /\ StartsWith(public_base, <<"http://">>)
                    /\ ~Contains(public_base, <<"localhost">>)
                    /\ ~Contains(public_base, <<"127.0.0.1">>)
                 THEN RStripSlash(ReplaceFirst(public_base, "http://", "https://"))
                          \o <<"/", account_name>>
                 ELSE RStripSlash(public_base) \o <<"/", account_name>>
       ELSE IF is_local_azurite(e) /\ ~is_azure_production(e)
            THEN <<"http://", "127.0.0.1", ":",
                   IF e.port = Unset THEN "10000" ELSE e.port, "/", account_name>>
            ELSE <<"https://", account_name, ".", "blob.core.windows.net">>

(***************************************************************************)
(* The environments the resolver is evaluated on.                          *)
(***************************************************************************)
ConnParts ==
    { Part("UseDevelopmentStorage", <<"true">>),
      Part("AccountName", <<"devstoreaccount1">>),
      Part("AccountName", <<"myacct">>),
      Part("accountname", <<"DevStoreAccount1">>),
      Part("BlobEndpoint", <<"http://", "127.0.0.1", ":", "10000", "/", "devstoreaccount1">>),
      Part("BlobEndpoint", <<"http://", "127.0.0.1", ":", "10001", "/", "devstoreaccount1">>),
      Part("BlobEndpoint", <<"http://", "AZURITE", ":", "10000", "/", "devstoreaccount1">>),
      Part("BlobEndpoint", <<"https://", "myacct", ".", "blob.core.windows.net">>),
      Part("BlobEndpoint", <<"https://", "myacct", ".", "BLOB.CORE.WINDOWS.NET">>),
      Part("EndpointSuffix", <<"core.windows.net">>),
      Bare("garbage") }

RECURSIVE SeqsUpTo(_, _)
\* all sequences over S of length at most n
SeqsUpTo(S, n) ==
    IF n = 0 THEN {<<>>}
    ELSE LET shorter == SeqsUpTo(S, n - 1)
         IN shorter \cup {Append(s, x) : s \in shorter, x \in S}

PublicBases ==
    { <<>>,
      <<"cdn.example.com">>,
      <<"localhost", ":", "10000">>,
      <<"https://", "cdn.example.com">>,
      <<"http://", "cdn.example.com", "/">>,
      <<"http://", "localhost", ":", "10000">>,
      <<"http://", "127.0.0.1", ":", "10000", "/">>,
      <<"http://", "cdn.example.com", "/", "localhost">> }

Accounts == {"devstoreaccount1", "myacct"}

MkEnv(csSet, cs, platform, pbSet, pb, port, key, sas, bc, ac) ==
    [csSet |-> csSet, cs |-> cs, platform |-> platform,
     publicBaseSet |-> pbSet, publicBase |-> pb, port |-> port,
     accountKey |-> key, sasMinutes |-> sas,
     blobContainer |-> bc, azContainer |-> ac]

ResolverEnvs ==
    { MkEnv(csSet, cs, platform, pbSet, pb, port, Unset, Unset, Unset, Unset) :
        csSet \in BOOLEAN, cs \in SeqsUpTo(ConnParts, MaxParts),
        platform \in {P \in SUBSET PlatformVars :
                         P \in {{}, {"CONTAINER_APP_NAME"},
                                {"WEBSITE_SITE_NAME", "WEBSITE_INSTANCE_ID"}}},
        pbSet \in BOOLEAN, pb \in PublicBases, port \in {Unset, "10001"} }

\* an unset variable has no value: keep one representative
Normal(e) == (e.csSet \/ e.cs = <<>>) /\ (e.publicBaseSet \/ e.publicBase = <<>>)

NoCtx == [done |-> FALSE, account |-> "", emulator |-> FALSE, production |-> FALSE,
          baseUrl |-> <<>>]

EmptyMap == [x \in {} |-> x]

NoSas == [account |-> "", container |-> "", blob |-> <<>>, permission |-> {},
          expiry |-> 0, key |-> ""]

NoUrl == [path |-> <<>>, sas |-> NoSas]

NoReq == [op |-> "none", at |-> 0, name |-> <<>>, hasFile |-> FALSE, size |-> 0,
          body |-> "none", field |-> "absent", meta |-> EmptyMap]

NoResp == [status |-> 0, error |-> FALSE, raised |-> "none", items |-> <<>>,
           mimetype |-> "", url |-> NoUrl]

NoPrev == [uploaded |-> FALSE, deleted |-> FALSE, name |-> <<>>, size |-> 0]

(***************************************************************************)
(* SpecResolver: the storage endpoint resolver as a pure function of the   *)
(* environment.                                                            *)
(***************************************************************************)
InitResolver ==
    /\ env \in {e \in ResolverEnvs : Normal(e)}
    /\ ctx = NoCtx
    /\ containerExists = FALSE
    /\ containerPublic = FALSE
    /\ blobs = EmptyMap
    /\ clock = 0
    /\ req = NoReq
    /\ last = NoResp
    /\ prev = NoPrev
    /\ pc = EmptyMap
    /\ seen = EmptyMap
    /\ createRejected = FALSE
    /\ live = {}

\* one evaluation of blob_base_url(account_name), recording the branch conditions it read
Resolve(account_name) ==
    /\ ~ctx.done
    /\ ctx' = [done |-> TRUE, account |-> account_name,
               emulator |-> is_local_azurite(env) /\ ~is_azure_production(env),
               production |-> is_azure_production(env),
               baseUrl |-> blob_base_url(env, account_name)]
    /\ UNCHANGED <<env, containerExists, containerPublic, blobs, clock, req, last, prev,
                   pc, seen, createRejected, live>>

NextResolver == \E a \in Accounts : Resolve(a)

SpecResolver == InitResolver /\ [][NextResolver]_vars

(***************************************************************************)
(* Claims about the resolver (checked under SpecResolver).                 *)
(***************************************************************************)
ProductionDomain == "blob.core.windows.net"

\* the descriptor is set and some part of it names the production storage domain
\* (host names are case-insensitive)
HasProductionDomain(e) ==
    /\ e.csSet
    /\ \E i \in DOMAIN e.cs : \E j \in DOMAIN PartText(e.cs[i]) :
          LowerLex(PartText(e.cs[i])[j]) = ProductionDomain

CanonKey(k) ==
    CASE k = "accountname" -> "AccountName"
      [] k = "blobendpoint" -> "BlobEndpoint"
      [] OTHER -> k

\* no key is given twice
NoRepeatedKey(cs) ==
    \A i, j \in DOMAIN cs : i # j => CanonKey(cs[i].key) # CanonKey(cs[j].key)

\* the emulator markers: the development-storage shortcut as prefix, the emulator
\* account name, or a blob endpoint naming the emulator host or host:port
HasEmulatorMarker(e) ==
    /\ e.csSet
    /\ \/ (e.cs # <<>> /\ e.cs[1].key = "UseDevelopmentStorage" /\ e.cs[1].eq
              /\ e.cs[1].val # <<>> /\ e.cs[1].val[1] = "true")
       \/ \E i \in DOMAIN e.cs :
              /\ e.cs[i].eq
              /\ \/ e.cs[i].key = "AccountName" /\ e.cs[i].val = <<"devstoreaccount1">>
                 \/ /\ e.cs[i].key = "BlobEndpoint"
                    /\ \E j \in DOMAIN e.cs[i].val :
                          \/ e.cs[i].val[j] = "azurite"
                          \/ /\ e.cs[i].val[j] = "127.0.0.1" /\ j + 2 <= Len(e.cs[i].val)
                             /\ e.cs[i].val[j + 1] = ":" /\ e.cs[i].val[j + 2] = "10000"

NoOverride(e) == ~e.publicBaseSet

NoProductionMarker(e) == e.platform = {} /\ ~HasProductionDomain(e)

PortOf(e) == IF e.port = Unset THEN "10000" ELSE e.port

\* C6: whenever the connection descriptor contains the production storage domain the
\* resolver classifies the target as production, whatever emulator marker it also
\* carries, and without a PUBLIC_BLOB_BASE_URL override blob_base_url(account) is
\* https://<account>.blob.core.windows.net, never an http://127.0.0.1 base.
C6_ProductionPrecedence ==
    (ctx.done /\ HasProductionDomain(env)) =>
        /\ ctx.production
        /\ ~ctx.emulator
        /\ NoOverride(env) =>
              /\ ctx.baseUrl = <<"https://", ctx.account, ".", ProductionDomain>>
              /\ ~StartsWith(ctx.baseUrl, <<"http://", "127.0.0.1">>)

\* C6 witness: a resolved environment whose descriptor carries both the production
\* domain and an emulator marker, with no override.
C6_Witness ==
    /\ ctx.done
    /\ HasProductionDomain(env)
    /\ HasEmulatorMarker(env)
    /\ NoOverride(env)
    /\ ctx.baseUrl = <<"https://", ctx.account, ".", ProductionDomain>>

C7_Case ==
    /\ ctx.done
    /\ HasEmulatorMarker(env)
    /\ NoRepeatedKey(env.cs)
    /\ NoProductionMarker(env)
    /\ NoOverride(env)

\* C7 as stated: for a descriptor with an emulator marker, no production marker and no
\* override, the target is classified emulator and the base URL is
\* http://127.0.0.1:<port>, <port> being AZURITE_BLOB_HOST_PORT or 10000.
C7_AsStated ==
    C7_Case => /\ ctx.emulator
               /\ ctx.baseUrl = <<"http://", "127.0.0.1", ":", PortOf(env)>>

\* C7 amended: in that case the target is classified emulator and the base URL is
\* http://127.0.0.1:<port>/<account name> (path-style: the account name follows the port).
C7_EmulatorBase ==
    C7_Case => /\ ctx.emulator
               /\ ~ctx.production
               /\ ctx.baseUrl = <<"http://", "127.0.0.1", ":", PortOf(env), "/", ctx.account>>

\* C7 witness: an emulator descriptor resolved with AZURITE_BLOB_HOST_PORT set.
C7_Witness ==
    /\ C7_Case
    /\ env.port = "10001"
    /\ ctx.baseUrl = <<"http://", "127.0.0.1", ":", "10001", "/", ctx.account>>

\* PUBLIC_BLOB_BASE_URL is set to a non-empty value
HasOverride(e) == e.publicBaseSet /\ e.publicBase # <<>>

\* the override without its scheme, when it gives one
AfterScheme(u) ==
    IF StartsWith(u, <<"http://">>) \/ StartsWith(u, <<"https://">>)
    THEN SubSeq(u, 2, Len(u)) ELSE u

\* the host of a URL: what stands between the scheme and the first ":" or "/"
RECURSIVE HostPrefix(_)
HostPrefix(u) ==
    IF u = <<>> \/ Head(u) \in {":", "/"} THEN <<>>
    ELSE <<Head(u)>> \o HostPrefix(Tail(u))

HostOf(u) == HostPrefix(AfterScheme(u))

LoopbackHost(u) == HostOf(u) \in {<<"localhost">>, <<"127.0.0.1">>}

\* C11 as stated: with PUBLIC_BLOB_BASE_URL set, the returned base URL starts with
\* http:// only if the host of the override is localhost or 127.0.0.1; for every
\* override whose host is not loopback (given without scheme, with http:// or with
\* https://) the returned base URL starts with https://.
C11_AsStated ==
    (ctx.done /\ HasOverride(env)) =>
        /\ StartsWith(ctx.baseUrl, <<"http://">>) => LoopbackHost(env.publicBase)
        /\ ~LoopbackHost(env.publicBase) => StartsWith(ctx.baseUrl, <<"https://">>)

(***************************************************************************)
(* Blob names, files and JSON bodies.                                  *)
(***************************************************************************)
\* the blob names requests use: a plain one, one under a virtual directory, one with
\* no extension
Names == { <<"my file", ".pdf">>, <<"dir", "/", "my file", ".pdf">>, <<"notes">> }

\* byte lengths of uploaded files: an empty file, and test_smoke.py's test.txt
FileSizes == {0, 38}

RECURSIVE SplitLast(_)
\* the lexemes after the last "/" of n
SplitLast(n) ==
    IF n = <<>> THEN <<>>
    ELSE IF n[Len(n)] = "/" THEN <<>>
    ELSE Append(SplitLast(SubSeq(n, 1, Len(n) - 1)), n[Len(n)])

LastSegment_whole(n) == n

\* name.split("/")[-1]
LastSegment(n) == SplitLast(n)

\* mimetypes.guess_type(name)[0], "" for None: by the extension of the last path
\* segment, a leading dot of the segment not counting as one
GuessType(n) ==
    IF Len(n) >= 2 /\ n[Len(n)] = ".pdf" /\ n[Len(n) - 1] # "/"
    THEN "application/pdf"
    ELSE ""

QuoteLex(x) == IF x = "my file" THEN "my%20file" ELSE x

\* urllib.parse.quote(blob): "/" is safe, a space becomes %20
quote(n) == [i \in DOMAIN n |-> QuoteLex(n[i])]

\* a or b, on strings where None is ""
Or(a, b) == IF a # "" THEN a ELSE b

\* JSON values a metadata mapping may hold under a key
JsonValues(k) ==
    IF k = "mime_type" THEN {[t |-> "string", v |-> "text/plain"]}
    ELSE {[t |-> "number", v |-> "7"], [t |-> "bool", v |-> "true"]}

\* str(v) of a decoded JSON value
PyStr(j) ==
    CASE j.t = "string" -> j.v
      [] j.t = "number" -> j.v
      [] j.t = "bool" -> (IF j.v = "true" THEN "True" ELSE "False")
      [] OTHER -> "None"

MetaKeys == {"mime_type", "k"}

\* the mappings a request may carry under "metadata"
MetaMaps ==
    UNION { {m \in [K -> UNION {JsonValues(k) : k \in K}] : \A k \in K : m[k] \in JsonValues(k)} :
            K \in SUBSET MetaKeys }

\* {k: str(v) for k, v in metadata.items()}
string_metadata(m) == [k \in DOMAIN m |-> PyStr(m[k])]

\* md.get(k), None read as ""
MdGet(md, k) == IF k \in DOMAIN md THEN md[k] ELSE ""

\* shapes of a PUT body: what request.json yields
BodyKinds == {"nojson", "array", "object"}

\* shapes of the "metadata" member of an object body
FieldKinds == {"absent", "dict", "array", "string", "number"}

ClientTypes == {"", "text/plain"}

(***************************************************************************)
(* The storage client and the backend.                                     *)
(***************************************************************************)
\* BlobServiceClient.from_connection_string(os.getenv(...)) raises without a descriptor
BscOk(e) == e.csSet /\ e.cs # <<>>

\* service.account_name: the account the descriptor names
AccountName(e) ==
    LET parts == _parse_conn_str(ConnStr(e))
        a == OrStr(DictGet(parts, "AccountName"), DictGet(parts, "accountname"))
    IN IF a = <<>> THEN "" ELSE a[1]

\* os.getenv("BLOB_CONTAINER", os.getenv("AZURE_STORAGE_CONTAINER", "uploads"))
ContainerName(e) ==
    IF e.blobContainer # Unset THEN e.blobContainer
    ELSE IF e.azContainer # Unset THEN e.azContainer
    ELSE "uploads"

\* backend faults of one ensure_container_exists call: which of its calls raises for a
\* reason other than the state of the container (a second fault in the same call
\* changes nothing: after a failed read only create runs, after a failed create nothing)
EnsureFaults ==
    {f \in [read : BOOLEAN, create : BOOLEAN, policy : BOOLEAN] :
        ~(f.read /\ f.create) /\ ~(f.read /\ f.policy) /\ ~(f.create /\ f.policy)}

\* ensure_container_exists run without interleaving: the container state it leaves
ensure_container_exists(e, exists, public, f) ==
    IF exists /\ ~f.read
    THEN [exists |-> exists,
          public |-> IF is_azurite(e) /\ ~f.policy THEN TRUE ELSE public,
          rejected |-> FALSE]
    ELSE IF ~exists /\ ~f.create
         THEN [exists |-> TRUE,
               public |-> IF is_azurite(e) /\ ~f.policy THEN TRUE ELSE FALSE,
               rejected |-> FALSE]
         ELSE [exists |-> exists, public |-> public, rejected |-> ~exists]

\* what a call of ensure_container_exists may leave, over the faults of the backend
EnsureOutcomes ==
    {ensure_container_exists(env, containerExists, containerPublic, f) : f \in EnsureFaults}

\* the faults a blob-level backend call on name may meet: an absent blob fails anyway
Faults(name) == IF containerExists /\ name \in DOMAIN blobs THEN BOOLEAN ELSE {FALSE}

\* a blob-level backend call on name succeeds
BlobCallOk(name, fault) == containerExists /\ name \in DOMAIN blobs /\ ~fault

\* the exception class a failed blob-level call raised
BlobCallError(name) ==
    IF containerExists /\ name \in DOMAIN blobs THEN "BackendError" ELSE "NotFound"

ErrorResp(status, raised) ==
    [NoResp EXCEPT !.status = status, !.error = TRUE, !.raised = raised]

\* the summary kept of the request answered before the current one
Summary == IF req.op = "upload" /\ last.status = 200
           THEN [NoPrev EXCEPT !.uploaded = TRUE, !.name = req.name, !.size = req.size]
           ELSE IF req.op = "delete" /\ last.status = 200
           THEN [NoPrev EXCEPT !.deleted = TRUE, !.name = req.name]
           ELSE NoPrev

RECURSIVE SetToSeq(_)
\* the backend's iteration order over a set of names
SetToSeq(S) ==
    IF S = {} THEN <<>>
    ELSE LET x == CHOOSE y \in S : TRUE IN <<x>> \o SetToSeq(S \ {x})

(***************************************************************************)
(* Request handlers.  A handler runs from the request to the response: its *)
(* backend calls happen inside the step.                                   *)
(***************************************************************************)
Respond(r, resp) ==
    /\ req' = [r EXCEPT !.at = clock]
    /\ last' = resp
    /\ prev' = Summary
    /\ live' = CASE r.op = "upload" /\ resp.status = 200 -> live \cup {r.name}
                  [] r.op = "delete" /\ resp.status = 200 -> live \ {r.name}
                  [] OTHER -> live
    /\ UNCHANGED <<env, ctx, clock, pc, seen, createRejected>>

Req(op, name) == [NoReq EXCEPT !.op = op, !.name = name]

\* content type as api_list_blobs derives it
list_content_type(b) == Or(Or(MdGet(b.metadata, "mime_type"), b.contentType), "")

list_item(n) ==
    [id |-> n, name |-> LastSegment(n), size |-> blobs[n].size,
     type |-> list_content_type(blobs[n]), contentType |-> list_content_type(blobs[n])]

\* GET /api/blobs
api_list_blobs ==
    IF ~BscOk(env)
    THEN /\ Respond(Req("list", <<>>), ErrorResp(500, "ConfigurationError"))
         /\ UNCHANGED <<containerExists, containerPublic, blobs>>
    ELSE \E c \in EnsureOutcomes, fault \in BOOLEAN :
         LET names == SetToSeq(DOMAIN blobs)
         IN /\ containerExists' = c.exists
            /\ containerPublic' = c.public
            /\ UNCHANGED blobs
            /\ IF c.exists /\ ~fault
               THEN Respond(Req("list", <<>>),
                            [NoResp EXCEPT !.status = 200,
                               !.items = [i \in DOMAIN names |-> list_item(names[i])]])
               ELSE Respond(Req("list", <<>>), ErrorResp(500, "BackendError"))

get_item(n) ==
    LET md == blobs[n].metadata
        content_type == blobs[n].contentType
    IN [id |-> n, name |-> LastSegment(n), size |-> blobs[n].size,
        type |-> Or(Or(MdGet(md, "mime_type"), content_type), ""),
        contentType |-> Or(Or(content_type, MdGet(md, "mime_type")), "")]

get_error_status_500(raised) == 500

\* the status api_get_blob's except branch answers, whatever exception was raised
get_error_status(raised) == 404

\* GET /api/blobs/<name>
api_get_blob(blob_name) ==
    \E fault \in Faults(blob_name) :
        /\ UNCHANGED <<containerExists, containerPublic, blobs>>
        /\ IF ~BscOk(env)
           THEN Respond(Req("get", blob_name), ErrorResp(get_error_status("ConfigurationError"), "ConfigurationError"))
           ELSE IF ~BlobCallOk(blob_name, fault)
           THEN Respond(Req("get", blob_name),
                        ErrorResp(get_error_status(BlobCallError(blob_name)),
                                  BlobCallError(blob_name)))
           ELSE Respond(Req("get", blob_name),
                        [NoResp EXCEPT !.status = 200, !.items = <<get_item(blob_name)>>])

\* the blob upload_blob(f, overwrite=True, content_settings=...) stores
uploaded_blob(filename, size, client_type) ==
    [size |-> size,
     contentType |-> Or(GuessType(filename), Or(client_type, "application/octet-stream")),
     metadata |-> EmptyMap]

\* POST /api/blobs
api_upload_blob(hasFile, filename, size, client_type) ==
    LET r == [NoReq EXCEPT !.op = "upload", !.hasFile = hasFile, !.name = filename,
                           !.size = size]
    IN IF ~hasFile \/ filename = <<>>
       THEN /\ Respond(r, ErrorResp(400, "none"))
            /\ UNCHANGED <<containerExists, containerPublic, blobs>>
       ELSE IF ~BscOk(env)
            THEN /\ Respond(r, ErrorResp(500, "ConfigurationError"))
                 /\ UNCHANGED <<containerExists, containerPublic, blobs>>
            ELSE \E c \in EnsureOutcomes, fault \in BOOLEAN :
                    /\ containerExists' = c.exists
                    /\ containerPublic' = c.public
                    /\ IF c.exists /\ ~fault
                       THEN /\ blobs' = [n \in DOMAIN blobs \cup {filename} |->
                                           IF n = filename
                                           THEN uploaded_blob(filename, size, client_type)
                                           ELSE blobs[n]]
                            /\ Respond(r, [NoResp EXCEPT !.status = 200])
                       ELSE /\ UNCHANGED blobs
                            /\ Respond(r, ErrorResp(500, "BackendError"))

\* request.json.get("metadata", {}) raises unless the body decodes to an object
body_is_object(body) == body = "object"

\* isinstance(metadata, dict), the member defaulting to {}
metadata_is_dict(field) == field \in {"absent", "dict"}

set_blob_metadata_merge(old, md) ==
    [k \in DOMAIN old \cup DOMAIN md |-> IF k \in DOMAIN md THEN md[k] ELSE old[k]]

\* blob_client.set_blob_metadata(md): the metadata the blob holds afterwards
set_blob_metadata(old, md) == md

\* PUT /api/blobs/<name>/metadata
api_update_metadata(blob_name, body, field, meta) ==
    LET r == [NoReq EXCEPT !.op = "update", !.name = blob_name, !.body = body,
                           !.field = field, !.meta = meta]
    IN \E fault \in Faults(blob_name) :
        /\ UNCHANGED <<containerExists, containerPublic>>
        /\ IF ~body_is_object(body)
           THEN UNCHANGED blobs /\ Respond(r, ErrorResp(500, "ClientError"))
           ELSE IF ~metadata_is_dict(field)
           THEN UNCHANGED blobs /\ Respond(r, ErrorResp(400, "none"))
           ELSE IF ~BscOk(env)
           THEN UNCHANGED blobs /\ Respond(r, ErrorResp(500, "ConfigurationError"))
           ELSE IF ~BlobCallOk(blob_name, fault)
           THEN UNCHANGED blobs /\ Respond(r, ErrorResp(500, BlobCallError(blob_name)))
           ELSE /\ blobs' = [blobs EXCEPT ![blob_name].metadata =
                                set_blob_metadata(@, string_metadata(meta))]
                /\ Respond(r, [NoResp EXCEPT !.status = 200])

delete_blob_keep(bs, blob_name) == bs

\* blob_client.delete_blob(): the blobs the container holds afterwards
delete_blob(bs, blob_name) == [n \in DOMAIN bs \ {blob_name} |-> bs[n]]

\* DELETE /api/blobs/<name>
api_delete_blob(blob_name) ==
    \E fault \in Faults(blob_name) :
        /\ UNCHANGED <<containerExists, containerPublic>>
        /\ IF ~BscOk(env)
           THEN UNCHANGED blobs
                /\ Respond(Req("delete", blob_name), ErrorResp(500, "ConfigurationError"))
           ELSE IF ~BlobCallOk(blob_name, fault)
           THEN UNCHANGED blobs
                /\ Respond(Req("delete", blob_name), ErrorResp(500, BlobCallError(blob_name)))
           ELSE /\ blobs' = delete_blob(blobs, blob_name)
                /\ Respond(Req("delete", blob_name), [NoResp EXCEPT !.status = 200])

(***************************************************************************)
(* Signed URLs.                                                            *)
(***************************************************************************)
DefaultSasMinutes == 5

\* int(s): the value, or -1 where int() raises ValueError
IntOf(s) ==
    CASE s = "5" -> 5
      [] s = "60" -> 60
      [] OTHER -> -1

\* _account_key_from_conn_str(conn_str), None read as ""
_account_key_from_conn_str(e) ==
    IF ConnStr(e) = <<>> THEN ""
    ELSE LET parts == _parse_conn_str(ConnStr(e))
             k == OrStr(DictGet(parts, "AccountKey"), DictGet(parts, "accountkey"))
         IN IF k = <<>> THEN "" ELSE k[1]

\* os.getenv("ACCOUNT_KEY") or _account_key_from_conn_str(...)
AccountKey(e) == IF Truthy(e.accountKey) THEN e.accountKey ELSE _account_key_from_conn_str(e)

sas_minutes_hour(e, minutes) ==
    IF minutes # 0 THEN minutes
    ELSE IF e.sasMinutes = Unset THEN 60 ELSE IntOf(e.sasMinutes)

\* minutes or int(os.getenv("SAS_EXPIRY_MINUTES", "5")); minutes = 0 stands for None
sas_minutes(e, minutes) ==
    IF minutes # 0 THEN minutes
    ELSE IF e.sasMinutes = Unset THEN DefaultSasMinutes ELSE IntOf(e.sasMinutes)

\* BlobSasPermissions(read=True)
sas_permission == {"read"}

\* make_sas(container, blob, minutes) at time now: the URL, or the exception raised
make_sas(e, now, container, blob, minutes) ==
    IF ~BscOk(e) THEN [ok |-> FALSE, raised |-> "ConfigurationError", url |-> NoUrl]
    ELSE IF sas_minutes(e, minutes) < 0
    THEN [ok |-> FALSE, raised |-> "ConfigurationError", url |-> NoUrl]
    ELSE IF AccountKey(e) = ""
    THEN [ok |-> FALSE, raised |-> "ConfigurationError", url |-> NoUrl]
    ELSE [ok |-> TRUE, raised |-> "none",
          url |-> [path |-> blob_base_url(e, AccountName(e)) \o <<"/", container, "/">>
                              \o quote(blob),
                   sas |-> [account |-> AccountName(e), container |-> container,
                            blob |-> blob, permission |-> sas_permission,
                            expiry |-> now + sas_minutes(e, minutes),
                            key |-> AccountKey(e)]]]

\* GET /api/blobs/<name>/url
api_get_blob_url(blob_name) ==
    LET r == make_sas(env, clock, ContainerName(env), blob_name, 0)
    IN /\ UNCHANGED <<containerExists, containerPublic, blobs>>
       /\ IF r.ok
          THEN Respond(Req("url", blob_name), [NoResp EXCEPT !.status = 200, !.url = r.url])
          ELSE Respond(Req("url", blob_name), ErrorResp(500, r.raised))

\* content type as api_view_blob derives it
view_content_type(b, blob_name) ==
    Or(Or(Or(MdGet(b.metadata, "mime_type"), b.contentType), GuessType(blob_name)),
       "application/octet-stream")

\* GET /api/blobs/<name>/view
api_view_blob(blob_name) ==
    \E fault \in Faults(blob_name), download_fault \in Faults(blob_name) :
        /\ UNCHANGED <<containerExists, containerPublic, blobs>>
        /\ IF ~BscOk(env)
           THEN Respond(Req("view", blob_name), ErrorResp(404, "ConfigurationError"))
           ELSE IF ~BlobCallOk(blob_name, fault)
           THEN Respond(Req("view", blob_name), ErrorResp(404, BlobCallError(blob_name)))
           ELSE IF download_fault
           THEN Respond(Req("view", blob_name), ErrorResp(404, "BackendError"))
           ELSE Respond(Req("view", blob_name),
                        [NoResp EXCEPT !.status = 200,
                           !.mimetype = view_content_type(blobs[blob_name], blob_name)])

\* the clock advances
Tick ==
    /\ clock < MaxClock
    /\ clock' = clock + 1
    /\ UNCHANGED <<env, ctx, containerExists, containerPublic, blobs, req, last, prev,
                   pc, seen, createRejected, live>>

(***************************************************************************)
(* Spec: the HTTP API over one container.                                  *)
(***************************************************************************)
DevConn ==
    << Part("AccountName", <<"devstoreaccount1">>),
       Part("AccountKey", <<"devkey">>),
       Part("BlobEndpoint", <<"http://", "127.0.0.1", ":", "10000", "/", "devstoreaccount1">>) >>

ProdConn ==
    << Part("DefaultEndpointsProtocol", <<"https">>),
       Part("AccountName", <<"myacct">>),
       Part("AccountKey", <<"prodkey">>),
       Part("EndpointSuffix", <<"core.windows.net">>) >>

NoKeyConn ==
    << Part("AccountName", <<"myacct">>),
       Part("EndpointSuffix", <<"core.windows.net">>) >>

ApiEnvs ==
    { MkEnv(TRUE, DevConn, {}, FALSE, <<>>, Unset, Unset, Unset, Unset, Unset),
      MkEnv(TRUE, ProdConn, {"CONTAINER_APP_NAME"}, FALSE, <<>>, Unset, Unset, Unset, Unset, Unset),
      MkEnv(FALSE, <<>>, {}, FALSE, <<>>, Unset, Unset, Unset, Unset, Unset) }

Init ==
    /\ env \in ApiEnvs
    /\ ctx = NoCtx
    /\ containerExists = FALSE
    /\ containerPublic = FALSE
    /\ blobs = EmptyMap
    /\ clock = 0
    /\ req = NoReq
    /\ last = NoResp
    /\ prev = NoPrev
    /\ pc = EmptyMap
    /\ seen = EmptyMap
    /\ createRejected = FALSE
    /\ live = {}

ListBlobs == api_list_blobs

GetBlob == \E n \in Names : api_get_blob(n)

\* the multipart forms a POST may carry: no file part, or a file part
Uploads ==
    {[hasFile |-> FALSE, filename |-> <<>>, size |-> 0, ctype |-> ""]} \cup
    [hasFile : {TRUE}, filename : Names \cup {<<>>}, size : FileSizes, ctype : ClientTypes]

UploadBlob ==
    \E u \in Uploads :
        /\ u.filename \in DOMAIN blobs \/ Cardinality(DOMAIN blobs) < MaxBlobs
        /\ api_upload_blob(u.hasFile, u.filename, u.size, u.ctype)

\* the bodies a PUT may carry: not an object, an object whose "metadata" member is
\* missing or no mapping, an object with a mapping
Bodies ==
    [body : BodyKinds \ {"object"}, field : {"absent"}, meta : {EmptyMap}] \cup
    [body : {"object"}, field : FieldKinds \ {"dict"}, meta : {EmptyMap}] \cup
    [body : {"object"}, field : {"dict"}, meta : MetaMaps]

UpdateMetadata ==
    \E n \in Names, b \in Bodies : api_update_metadata(n, b.body, b.field, b.meta)

DeleteBlob == \E n \in Names : api_delete_blob(n)

GetBlobUrl == \E n \in Names : api_get_blob_url(n)

ViewBlob == \E n \in Names : api_view_blob(n)

Next ==
    \/ ListBlobs
    \/ GetBlob
    \/ UploadBlob
    \/ UpdateMetadata
    \/ DeleteBlob
    \/ GetBlobUrl
    \/ ViewBlob

Spec == Init /\ [][Next]_vars

(***************************************************************************)
(* SpecSas: signed URLs over the configurations and the clock.             *)
(***************************************************************************)
SasEnvs ==
    { MkEnv(csSet, cs, {}, FALSE, <<>>, port, key, sas, bc, Unset) :
        csSet \in BOOLEAN, cs \in {DevConn, ProdConn, NoKeyConn},
        port \in {Unset, "10001"}, key \in {Unset, "envkey"},
        sas \in {Unset, "60", "x"}, bc \in {Unset, "media"} }

InitSas ==
    /\ env \in SasEnvs
    /\ ctx = NoCtx
    /\ containerExists = FALSE
    /\ containerPublic = FALSE
    /\ blobs = EmptyMap
    /\ clock = 0
    /\ req = NoReq
    /\ last = NoResp
    /\ prev = NoPrev
    /\ pc = EmptyMap
    /\ seen = EmptyMap
    /\ createRejected = FALSE
    /\ live = {}

NextSas == Tick \/ GetBlobUrl

SpecSas == InitSas /\ [][NextSas]_vars

(***************************************************************************)
(* Claims about the HTTP API (checked under Spec).                         *)
(***************************************************************************)
\* the request body is no mapping: an array as the whole body, or a "metadata" member
\* that is an array, a string or a number
NotMapping(r) ==
    \/ r.body = "array"
    \/ r.body = "object" /\ r.field \in {"array", "string", "number"}

\* C1 as stated: a metadata update whose body is not a mapping is answered 400, never
\* 500, and the stored blobs (their metadata) are left unchanged.
C1_AsStated ==
    [][(req'.op = "update" /\ NotMapping(req')) =>
          (last'.status = 400 /\ blobs' = blobs)]_vars

\* C2: for a blob name absent from the container, Get answers 404 with an error
\* envelope, an update with a valid mapping answers 404 or 500 and never 200/201, and
\* neither creates a blob of that name.
C2_AbsentBlob ==
    [][/\ (req'.op = "get" /\ req'.name \notin DOMAIN blobs) =>
            /\ last'.status = 404
            /\ last'.error
            /\ req'.name \notin DOMAIN blobs'
       /\ (req'.op = "update" /\ req'.body = "object" /\ req'.field = "dict"
              /\ req'.name \notin DOMAIN blobs) =>
            /\ last'.status \in {404, 500}
            /\ last'.error
            /\ req'.name \notin DOMAIN blobs']_vars

\* C2 witness: after other blobs were stored, a Get of an absent name was answered 404
\* and left no blob of that name.
C2_Witness ==
    /\ req.op = "get"
    /\ blobs # EmptyMap
    /\ req.name \notin DOMAIN blobs
    /\ last.status = 404
    /\ last.error
    /\ last.raised = "NotFound"

\* the content type by the documented precedence: mime_type metadata, then the
\* backend's content-settings content type, then the guess from the file name, then
\* application/octet-stream
ResolvedType(n) ==
    IF MdGet(blobs[n].metadata, "mime_type") # "" THEN MdGet(blobs[n].metadata, "mime_type")
    ELSE IF blobs[n].contentType # "" THEN blobs[n].contentType
    ELSE IF GuessType(n) # "" THEN GuessType(n)
    ELSE "application/octet-stream"

\* C3 as stated: List (type and contentType), Get (type and contentType) and View
\* (mimetype) all report the content type the precedence gives.
C3_AsStated ==
    /\ (req.op = "list" /\ last.status = 200) =>
          \A i \in DOMAIN last.items :
              /\ last.items[i].type = ResolvedType(last.items[i].id)
              /\ last.items[i].contentType = ResolvedType(last.items[i].id)
    /\ (req.op = "get" /\ last.status = 200) =>
          /\ last.items[1].type = ResolvedType(req.name)
          /\ last.items[1].contentType = ResolvedType(req.name)
    /\ (req.op = "view" /\ last.status = 200) =>
          last.mimetype = ResolvedType(req.name)

\* a List answered right after a successful Upload
C4_Case == req.op = "list" /\ last.status = 200 /\ prev.uploaded

\* the entries of the listing for the uploaded file
C4_Entries == {i \in DOMAIN last.items : last.items[i].id = prev.name}

\* C4 as stated: a List right after a successful Upload of f with L bytes has exactly
\* one entry for f, whose name ends in f and whose size is L.
C4_AsStated ==
    C4_Case =>
        /\ Cardinality(C4_Entries) = 1
        /\ \A i \in C4_Entries :
              /\ EndsWith(last.items[i].name, prev.name)
              /\ last.items[i].size = prev.size

\* s is the part of f after its last "/" (all of f when it has none)
IsLastSegment(s, f) ==
    \E k \in 0..Len(f) :
        /\ s = SubSeq(f, k + 1, Len(f))
        /\ \A i \in DOMAIN s : s[i] # "/"
        /\ k = 0 \/ f[k] = "/"

\* C4 amended: the listing has exactly one entry whose id is f; its name is the part of
\* f after the last "/" (so f ends in the name, and the name ends in f only when f has
\* no "/"), and its size is L.
C4_RoundTrip ==
    C4_Case =>
        /\ Cardinality(C4_Entries) = 1
        /\ \A i \in C4_Entries :
              /\ IsLastSegment(last.items[i].name, prev.name)
              /\ EndsWith(prev.name, last.items[i].name)
              /\ last.items[i].size = prev.size

\* C4 witness: a List right after an Upload of 38 bytes under a virtual directory
\* shows the entry with the bare file name.
C4_Witness ==
    /\ C4_Case
    /\ prev.name = <<"dir", "/", "my file", ".pdf">>
    /\ prev.size = 38
    /\ \E i \in DOMAIN last.items :
          /\ last.items[i].id = prev.name
          /\ last.items[i].name = <<"my file", ".pdf">>
          /\ last.items[i].size = 38

\* Python's str() of a JSON value: a string is itself, 7 is "7", true is "True"
StrOf(j) ==
    IF j.t = "bool" THEN (IF j.v = "true" THEN "True" ELSE "False") ELSE j.v

\* C9: a successful metadata update with mapping M leaves the blob with exactly
\* {k: str(v)} as metadata (keys not in M are gone, values are strings), its size and
\* content type unchanged, and every other blob as it was.
C9_FullReplace ==
    [][(req'.op = "update" /\ last'.status = 200) =>
          /\ req'.name \in DOMAIN blobs
          /\ DOMAIN blobs' = DOMAIN blobs
          /\ DOMAIN blobs'[req'.name].metadata = DOMAIN req'.meta
          /\ \A k \in DOMAIN req'.meta :
                /\ blobs'[req'.name].metadata[k] \in STRING
                /\ blobs'[req'.name].metadata[k] = StrOf(req'.meta[k])
          /\ blobs'[req'.name].size = blobs[req'.name].size
          /\ blobs'[req'.name].contentType = blobs[req'.name].contentType
          /\ \A n \in DOMAIN blobs \ {req'.name} : blobs'[n] = blobs[n]]_vars

\* C9 witness: an update with the mapping {k: 7} succeeded and the blob holds {k: "7"}
\* and no mime_type.
C9_Witness ==
    /\ req.op = "update"
    /\ last.status = 200
    /\ DOMAIN req.meta = {"k"}
    /\ req.meta["k"].t = "number"
    /\ req.name \in DOMAIN blobs
    /\ DOMAIN blobs[req.name].metadata = {"k"}
    /\ blobs[req.name].metadata["k"] = "7"

\* the blob's stored fields other than its metadata
Content(b) == [size |-> b.size, contentType |-> b.contentType]

C10_AsStated ==
    /\ last.raised \in {"ConfigurationError", "BackendError"} =>
          (last.status = 500 /\ last.error)
    /\ last.status = 404 => last.raised = "NotFound"

(***************************************************************************)
(* Claims about signed URLs (checked under SpecSas).                       *)
(***************************************************************************)
\* a signed URL was issued with the default TTL: no minutes argument (the handler
\* passes none) and SAS_EXPIRY_MINUTES unset
C8_Case == req.op = "url" /\ last.status = 200 /\ env.sasMinutes = Unset

\* the URL escape of a blob name: "/" stays, a space becomes %20
UrlEscaped(n) == [i \in DOMAIN n |-> IF n[i] = "my file" THEN "my%20file" ELSE n[i]]

\* C8: a signed URL issued with the default TTL expires within [now, now + 5 minutes]
\* of the request, carries only the read permission, is scoped to exactly the requested
\* container and blob, and is {resolved base URL}/{container}/{escaped name}?{token}.
C8_DefaultSas ==
    C8_Case =>
        /\ last.url.sas.expiry >= req.at
        /\ last.url.sas.expiry <= req.at + 5
        /\ last.url.sas.permission = {"read"}
        /\ last.url.sas.container = ContainerName(env)
        /\ last.url.sas.blob = req.name
        /\ last.url.path = blob_base_url(env, AccountName(env))
                              \o <<"/", ContainerName(env), "/">> \o UrlEscaped(req.name)

\* C8 witness: a URL issued at minute 1 for a name with a space, in the container
\* "media", expiring at minute 6.
C8_Witness ==
    /\ C8_Case
    /\ req.at = 1
    /\ req.name = <<"dir", "/", "my file", ".pdf">>
    /\ env.blobContainer = "media"
    /\ last.url.sas.expiry = 6
    /\ last.url.sas.container = "media"

(***************************************************************************)
(* SpecEnsure: concurrent callers of ensure_container_exists for the same  *)
(* container, one backend call per step.                                   *)
(***************************************************************************)
MaxCallers == 2

Callers == 1..MaxCallers

swallow_create_error_off == FALSE

\* the except clause around create_container swallows the exception
swallow_create_error == TRUE

\* what a caller has met: it raised, it holds the handle cc, its read found the
\* container absent, its create failed because the container existed by then
NoSeen == [raised |-> FALSE, handle |-> FALSE, sawAbsent |-> FALSE, lostRace |-> FALSE]

InitEnsure ==
    /\ env \in ApiEnvs
    /\ ctx = NoCtx
    /\ containerExists \in BOOLEAN
    /\ containerPublic \in {b \in BOOLEAN : b => containerExists}
    /\ blobs = EmptyMap
    /\ clock = 0
    /\ req = NoReq
    /\ last = NoResp
    /\ prev = NoPrev
    /\ pc = [p \in Callers |-> "bsc"]
    /\ seen = [p \in Callers |-> NoSeen]
    /\ createRejected = FALSE
    /\ live = {}

EnsureFrame == UNCHANGED <<env, ctx, blobs, clock, req, last, prev, live>>

\* svc = bsc(); cc = svc.get_container_client(container_name)
EnsureBsc(p) ==
    /\ pc[p] = "bsc"
    /\ IF BscOk(env)
       THEN pc' = [pc EXCEPT ![p] = "read"] /\ seen' = [seen EXCEPT ![p].handle = TRUE]
       ELSE pc' = [pc EXCEPT ![p] = "done"] /\ seen' = [seen EXCEPT ![p].raised = TRUE]
    /\ UNCHANGED <<containerExists, containerPublic, createRejected>>
    /\ EnsureFrame

\* cc.get_container_properties()
EnsureRead(p) ==
    /\ pc[p] = "read"
    /\ \E fault \in BOOLEAN :
          IF containerExists /\ ~fault
          THEN /\ pc' = [pc EXCEPT ![p] = IF is_azurite(env) THEN "policy" ELSE "done"]
               /\ UNCHANGED seen
          ELSE /\ pc' = [pc EXCEPT ![p] = "create"]
               /\ seen' = [seen EXCEPT ![p].sawAbsent = ~containerExists]
    /\ UNCHANGED <<containerExists, containerPublic, createRejected>>
    /\ EnsureFrame

\* cc.create_container()
EnsureCreate(p) ==
    /\ pc[p] = "create"
    /\ \E fault \in BOOLEAN :
          IF ~containerExists /\ ~fault
          THEN /\ containerExists' = TRUE
               /\ containerPublic' = FALSE
               /\ pc' = [pc EXCEPT ![p] = IF is_azurite(env) THEN "policy" ELSE "done"]
               /\ UNCHANGED <<createRejected, seen>>
          ELSE /\ createRejected' = (createRejected \/ ~containerExists)
               /\ pc' = [pc EXCEPT ![p] = "done"]
               /\ seen' = [seen EXCEPT ![p].raised = ~swallow_create_error,
                                        ![p].lostRace = containerExists /\ seen[p].sawAbsent]
               /\ UNCHANGED <<containerExists, containerPublic>>
    /\ EnsureFrame

\* cc.set_container_access_policy(public_access="blob"), its failure ignored
EnsurePolicy(p) ==
    /\ pc[p] = "policy"
    /\ \E fault \in BOOLEAN :
          containerPublic' = IF containerExists /\ ~fault THEN TRUE ELSE containerPublic
    /\ pc' = [pc EXCEPT ![p] = "done"]
    /\ UNCHANGED <<containerExists, createRejected, seen>>
    /\ EnsureFrame

NextEnsure ==
    \E p \in Callers : EnsureBsc(p) \/ EnsureRead(p) \/ EnsureCreate(p) \/ EnsurePolicy(p)

SpecEnsure == InitEnsure /\ [][NextEnsure]_vars

(***************************************************************************)
(* Claims about ensure_container_exists (checked under SpecEnsure).        *)
(***************************************************************************)
AllReturned == \A p \in Callers : pc[p] = "done"

====
